---- MODULE Spec2Model ----
(***************************************************************************)
(* Model of bevy-orbit-controls (src/src/lib.rs): the OrbitCamera          *)
(* component, the two per-frame systems mouse_motion_system and            *)
(* zoom_system of OrbitCameraPlugin, and the host's frame loop that feeds  *)
(* them events, button state and elapsed time.                             *)
(*                                                                         *)
(* Numbers.  The code computes in f32; the model computes in exact real    *)
(* arithmetic (rounding, overflow and underflow of f32 are not modelled),  *)
(* on values that have an exact finite representation:                     *)
(*   - angles, pointer deltas, lengths and coordinates are integers in     *)
(*     hundredths (0.01 is 1, 3.13 is 313, 5.0 is 500); sensitivities of   *)
(*     rotation and pan and the elapsed time are whole numbers;            *)
(*   - scroll amounts and zoom_sensitivity are integers in tenths (a line  *)
(*     factor of 1.0 is 10, LINE_TO_PIXEL_RATIO = 0.1 is 1, 0.8 is 8);     *)
(*   - a length is a pair [m, k] that stands for  m * zs^(k/10)  with zs   *)
(*     the owning camera's zoom_sensitivity, so that zs.powf(total) is     *)
(*     [1, total] and products add the exponents;                          *)
(*   - a Vec3 is a formal sum of terms  m * zs^(k/10) * d  over unit       *)
(*     vectors d: the coordinate axes, and the columns RotX, RotY, RotZ of *)
(*     the orbit rotation Ry(x) * R(-X)(y).  Two equal formal sums are     *)
(*     equal vectors; NaN is a vector of its own.                          *)
(***************************************************************************)
EXTENDS Integers, Sequences, FiniteSets, TLC

\* The program's state: the components of the entities, the events each
\* system's EventReader has not read yet, Input<MouseButton>, Time's delta,
\* and the systems that ran in the current frame.
VARIABLES camera, transform, motion_events, wheel_events, pressed, dt, ran

\* History, for stating the properties: the number of events sent so far,
\* the last action, the world at the start of the frame, the sums the
\* systems read in the frame and the events sent in the frame.
VARIABLES sent, last, start, delta_read, total_read, motion_sent, wheel_sent

vars == <<camera, transform, motion_events, wheel_events, pressed, dt, ran,
          sent, last, start, delta_read, total_read, motion_sent, wheel_sent>>

\* Events the host sends in a run.
MaxEvents == 2

Entities == {"cam1", "cam2"}
MouseButtons == {"Left", "Right"}
Systems == {"mouse_motion_system", "zoom_system"}

\* 1.0 in tenths, and the bounds of the pitch clamp in hundredths.
ONE == 10
LINE_TO_PIXEL_RATIO == 1
PITCH_MIN == 1
PITCH_MAX == 313

Max(a, b) == IF a >= b THEN a ELSE b
Min(a, b) == IF a <= b THEN a ELSE b
Sign(n) == IF n > 0 THEN 1 ELSE IF n < 0 THEN -1 ELSE 0
Abs(n) == IF n < 0 THEN -n ELSE n

----------------------------------------------------------------------------
(* Vec3: formal sums over unit vectors.                                    *)

Sym(kind, a, b, v) == [kind |-> kind, a |-> a, b |-> b, v |-> v]
AxisX == Sym("axis", 0, 0, {})
AxisY == Sym("axis", 1, 0, {})
AxisZ == Sym("axis", 2, 0, {})
NaNSym == Sym("nan", 0, 0, {})
\* Columns of Ry(x) * R(-X)(y): (cos x, 0, -sin x),
\* (-sin y sin x, cos y, -sin y cos x) and (cos y sin x, sin y, cos y cos x).
\* RotX(0) is the X axis itself; no other angle of the grid meets an axis.
RotX(x) == IF x = 0 THEN AxisX ELSE Sym("rotX", x, 0, {})
RotY(x, y) == Sym("rotY", x, y, {})
RotZ(x, y) == Sym("rotZ", x, y, {})

Term(d, k, m) == [d |-> d, k |-> k, m |-> m]
Unit(d) == {Term(d, 0, 1)}
VecZero == {}
VecX == Unit(AxisX)
VecY == Unit(AxisY)
VecZ == Unit(AxisZ)
VecNaN == Unit(NaNSym)
IsNaN(v) == \E t \in v : t.d.kind = "nan"

Coef(v, d, k) ==
    LET s == {t \in v : t.d = d /\ t.k = k}
    IN  IF s = {} THEN 0 ELSE (CHOOSE t \in s : TRUE).m

VAdd(a, b) ==
    IF IsNaN(a) \/ IsNaN(b) THEN VecNaN
    ELSE LET keys == {<<t.d, t.k>> : t \in a \cup b}
             all == {Term(key[1], key[2],
                          Coef(a, key[1], key[2]) + Coef(b, key[1], key[2]))
                     : key \in keys}
         IN  {t \in all : t.m # 0}

VNeg(a) == IF IsNaN(a) THEN VecNaN ELSE {Term(t.d, t.k, -t.m) : t \in a}

VSub(a, b) == VAdd(a, VNeg(b))

\* v * n for a number n.
VMulInt(v, n) ==
    IF IsNaN(v) THEN VecNaN
    ELSE IF n = 0 THEN VecZero
    ELSE {Term(t.d, t.k, t.m * n) : t \in v}

\* v * s for a length s = [m, k].
VMulLen(v, s) ==
    IF IsNaN(v) THEN VecNaN
    ELSE IF s.m = 0 THEN VecZero
    ELSE {Term(t.d, t.k + s.k, t.m * s.m) : t \in v}

\* Vec3::normalize: v * (1 / |v|); the zero vector gives NaN (0 * inf).
Normalize(v) ==
    IF IsNaN(v) \/ v = VecZero THEN VecNaN
    ELSE IF Cardinality(v) = 1
         THEN LET t == CHOOSE u \in v : TRUE IN {Term(t.d, 0, Sign(t.m))}
         ELSE Unit(Sym("norm", 0, 0, v))

----------------------------------------------------------------------------
(* Quat: a rotation, given by the images of the X, Y and Z axes.           *)

Quat(ix, iy, iz) == [x |-> ix, y |-> iy, z |-> iz]
QuatIdentity == Quat(VecX, VecY, VecZ)
QuatNaN == Quat(VecNaN, VecNaN, VecNaN)

\* Quat::from_axis_angle(Vec3::Y, x) * Quat::from_axis_angle(-Vec3::X, y)
OrbitRot(x, y) == Quat(Unit(RotX(x)), Unit(RotY(x, y)), Unit(RotZ(x, y)))

\* Quat * Vec3, for a vector given in the coordinate axes (the code rotates
\* the constants Y and -X only).
MulVec(q, v) ==
    IF IsNaN(v) \/ IsNaN(q.x) THEN VecNaN
    ELSE VAdd(VAdd(VMulInt(q.x, Coef(v, AxisX, 0)),
                   VMulInt(q.y, Coef(v, AxisY, 0))),
              VMulInt(q.z, Coef(v, AxisZ, 0)))

\* Transform::look_at(target, Vec3::Y) from `translation`:
\*   forward = normalize(translation - target)
\*   right   = normalize(Y x forward),  up = forward x right
\*   rotation = the rotation with columns (right, up, forward).
\* The cross products are worked out per direction of forward; forward along
\* the Y axis, or NaN, leaves a NaN rotation.
LookAt(translation, target) ==
    LET forward == Normalize(VSub(translation, target))
        t == CHOOSE u \in forward : TRUE
        s == t.m
    IN  IF IsNaN(forward) \/ t.d = AxisY THEN QuatNaN
        ELSE IF t.d = AxisZ THEN Quat(VMulInt(VecX, s), VecY, forward)
        ELSE IF t.d = AxisX THEN Quat(VMulInt(VecZ, -s), VecY, forward)
        ELSE IF t.d.kind = "rotY"
             THEN Quat(VMulInt(Unit(RotX(t.d.a)), -s),
                       Unit(RotZ(t.d.a, t.d.b)), forward)
        ELSE Quat(Unit(Sym("lookR", 0, 0, forward)),
                  Unit(Sym("lookU", 0, 0, forward)), forward)

----------------------------------------------------------------------------
(* Lengths  m * zs^(k/10).                                                 *)

Dist(m, k) == [m |-> m, k |-> k]

\* Slips of powf: the product zs * total, and the exponent negated.
PowfAsProduct(zs, total) == Dist(zs * total, 0)
PowfNegated(zs, total) == IF zs = ONE THEN Dist(1, 0) ELSE Dist(1, -total)

\* zoom_sensitivity.powf(total), total in tenths; 1.0 to any power is 1.0.
Powf(zs, total) == IF zs = ONE THEN Dist(1, 0) ELSE Dist(1, total)

DistMul(a, b) == Dist(a.m * b.m, a.k + b.k)

----------------------------------------------------------------------------
(* OrbitCamera and its constructors.                                       *)

OrbitCameraDefault ==
    [x |-> 0, y |-> 0, distance |-> Dist(500, 0), center |-> VecZero,
     rotate_sensitivity |-> 1, pan_sensitivity |-> 1, zoom_sensitivity |-> 8,
     rotate_button |-> "Left", pan_button |-> "Right", enabled |-> TRUE]

OrbitCameraNew(dist, center) ==
    [OrbitCameraDefault EXCEPT !.distance = dist, !.center = center]

Transform(translation, rotation) ==
    [translation |-> translation, rotation |-> rotation]

\* One entity of the query: its OrbitCamera and its Transform.
Item(cam, tf) == [cam |-> cam, tf |-> tf]

----------------------------------------------------------------------------
(* mouse_motion_system                                                     *)

RECURSIVE SumDelta(_)
SumDelta(events) ==
    IF events = <<>> THEN <<0, 0>>
    ELSE LET rest == SumDelta(Tail(events))
         IN  <<Head(events)[1] + rest[1], Head(events)[2] + rest[2]>>

\* A slip of the clamp: the upper bound left out.
ClampPitchNoMax(y) == Max(y, PITCH_MIN)

ClampPitch(y) == Min(Max(y, PITCH_MIN), PITCH_MAX)

\* The body of `if mouse_button_input.pressed(camera.rotate_button)`.
RotateStep(it, delta, seconds) ==
    LET cam == it.cam
        x == cam.x - delta[1] * cam.rotate_sensitivity * seconds
        y == ClampPitch(cam.y - delta[2] * cam.rotate_sensitivity * seconds)
        rot == OrbitRot(x, y)
        translation == VAdd(VMulLen(MulVec(rot, VecY), cam.distance), cam.center)
    IN  Item([cam EXCEPT !.x = x, !.y = y],
             Transform(translation, LookAt(translation, cam.center)))

\* A slip of the pan: the pivot moves and the camera stays.
PanStepCenterOnly(it, delta, seconds) ==
    LET right_dir == MulVec(it.tf.rotation, VNeg(VecX))
        up_dir == MulVec(it.tf.rotation, VecY)
        pan_vector == VMulInt(VMulInt(VAdd(VMulInt(right_dir, delta[1]),
                                           VMulInt(up_dir, delta[2])),
                                      it.cam.pan_sensitivity), seconds)
    IN  Item([it.cam EXCEPT !.center = VAdd(it.cam.center, pan_vector)], it.tf)

\* The body of `if mouse_button_input.pressed(camera.pan_button)`.
PanStep(it, delta, seconds) ==
    LET right_dir == MulVec(it.tf.rotation, VNeg(VecX))
        up_dir == MulVec(it.tf.rotation, VecY)
        pan_vector == VMulInt(VMulInt(VAdd(VMulInt(right_dir, delta[1]),
                                           VMulInt(up_dir, delta[2])),
                                      it.cam.pan_sensitivity), seconds)
    IN  Item([it.cam EXCEPT !.center = VAdd(it.cam.center, pan_vector)],
             [it.tf EXCEPT !.translation = VAdd(it.tf.translation, pan_vector)])

\* A slip of the loop: the rotation is keyed to the pan button too.
MotionEntityPanRotates(it, delta, held, seconds) ==
    IF ~it.cam.enabled THEN it
    ELSE LET r == IF it.cam.rotate_button \in held \/ it.cam.pan_button \in held
                  THEN RotateStep(it, delta, seconds) ELSE it
         IN  IF r.cam.pan_button \in held THEN PanStep(r, delta, seconds) ELSE r

\* One iteration of the query loop of mouse_motion_system.
MotionEntity(it, delta, held, seconds) ==
    IF ~it.cam.enabled THEN it
    ELSE LET r == IF it.cam.rotate_button \in held
                  THEN RotateStep(it, delta, seconds) ELSE it
         IN  IF r.cam.pan_button \in held THEN PanStep(r, delta, seconds) ELSE r

----------------------------------------------------------------------------
(* zoom_system                                                             *)

\* A slip of the unit match: pixel deltas are not scaled.
UnitFactorUnscaled(unit) == ONE

UnitFactor(unit) == IF unit = "Line" THEN ONE ELSE LINE_TO_PIXEL_RATIO

\* total, in tenths of a line: event.y times the factor of its unit.
RECURSIVE SumWheel(_)
SumWheel(events) ==
    IF events = <<>> THEN 0
    ELSE Head(events).y * UnitFactor(Head(events).unit) + SumWheel(Tail(events))

\* Slips of the zoom loop: no test of `enabled`; the direction taken from the
\* translation instead of translation - center; the offset scaled without
\* being normalized.
ZoomEntityAlways(it, total) ==
    LET distance == DistMul(it.cam.distance, Powf(it.cam.zoom_sensitivity, total))
        translation ==
            VAdd(VMulLen(Normalize(VSub(it.tf.translation, it.cam.center)),
                         distance),
                 it.cam.center)
    IN  Item([it.cam EXCEPT !.distance = distance],
             [it.tf EXCEPT !.translation = translation])

ZoomEntityFromOrigin(it, total) ==
    IF ~it.cam.enabled THEN it
    ELSE LET distance == DistMul(it.cam.distance,
                                 Powf(it.cam.zoom_sensitivity, total))
             translation ==
                 VAdd(VMulLen(Normalize(it.tf.translation), distance),
                      it.cam.center)
         IN  Item([it.cam EXCEPT !.distance = distance],
                  [it.tf EXCEPT !.translation = translation])

ZoomEntityNoNormalize(it, total) ==
    IF ~it.cam.enabled THEN it
    ELSE LET distance == DistMul(it.cam.distance,
                                 Powf(it.cam.zoom_sensitivity, total))
             translation ==
                 VAdd(VMulLen(VSub(it.tf.translation, it.cam.center), distance),
                      it.cam.center)
         IN  Item([it.cam EXCEPT !.distance = distance],
                  [it.tf EXCEPT !.translation = translation])

\* One iteration of the query loop of zoom_system.
ZoomEntity(it, total) ==
    IF ~it.cam.enabled THEN it
    ELSE LET distance == DistMul(it.cam.distance,
                                 Powf(it.cam.zoom_sensitivity, total))
             translation ==
                 VAdd(VMulLen(Normalize(VSub(it.tf.translation, it.cam.center)),
                              distance),
                      it.cam.center)
         IN  Item([it.cam EXCEPT !.distance = distance],
                  [it.tf EXCEPT !.translation = translation])

----------------------------------------------------------------------------
(* The world: every entity that carries an OrbitCamera and a Transform.    *)

World == [e \in Entities |-> Item(camera[e], transform[e])]

MotionPass(w, delta, held, seconds) ==
    [e \in Entities |-> MotionEntity(w[e], delta, held, seconds)]

ZoomPass(w, total) == [e \in Entities |-> ZoomEntity(w[e], total)]

\* Cameras and transforms an application may spawn.  The camera of the
\* crate's example stands off the orbit sphere of its OrbitCamera; a
\* Transform left at the pivot is the degenerate start.
ExampleItem ==
    Item(OrbitCameraDefault, Transform(VMulInt(VecZ, 700), QuatIdentity))
DisabledItem ==
    Item([OrbitCameraDefault EXCEPT !.enabled = FALSE],
         Transform(VMulInt(VecZ, 700), QuatIdentity))
CustomItem ==
    Item([OrbitCameraNew(Dist(300, 0), VMulInt(VecX, 200))
              EXCEPT !.x = 100, !.y = 400, !.zoom_sensitivity = 12],
         Transform(VAdd(VMulInt(VecX, 200), VMulInt(VecZ, 300)), QuatIdentity))
AtPivotItem == Item(OrbitCameraDefault, Transform(VecZero, QuatIdentity))

StartWorlds ==
    {[e \in Entities |-> IF e = "cam1" THEN ExampleItem ELSE DisabledItem],
     [e \in Entities |-> IF e = "cam1" THEN CustomItem ELSE AtPivotItem]}

\* Values the host delivers.
MotionDeltas == {<<0, 0>>, <<30, -50>>, <<-10, 400>>}
WheelValues == {[y |-> 1, unit |-> "Line"], [y |-> 10, unit |-> "Pixel"],
                [y |-> -5, unit |-> "Pixel"]}
Seconds == {2}

Init ==
    /\ \E w \in StartWorlds :
          /\ camera = [e \in Entities |-> w[e].cam]
          /\ transform = [e \in Entities |-> w[e].tf]
          /\ start = w
    /\ motion_events = <<>>
    /\ wheel_events = <<>>
    /\ pressed = {}
    /\ dt = 1
    /\ ran = Systems
    /\ sent = 0
    /\ last = "init"
    /\ delta_read = <<0, 0>>
    /\ total_read = 0
    /\ motion_sent = <<>>
    /\ wheel_sent = <<>>

\* The host starts a frame: Time and Input<MouseButton> are updated.
NextFrame(seconds, held) ==
    /\ ran = Systems
    /\ ran' = {}
    /\ dt' = seconds
    /\ pressed' = held
    /\ last' = "frame"
    /\ start' = World
    /\ delta_read' = <<0, 0>>
    /\ total_read' = 0
    /\ motion_sent' = <<>>
    /\ wheel_sent' = <<>>
    /\ UNCHANGED <<camera, transform, motion_events, wheel_events, sent>>

\* The host sends the frame's events before it runs the systems.
MouseMotion(delta) ==
    /\ ran = {}
    /\ sent < MaxEvents
    /\ sent' = sent + 1
    /\ motion_events' = Append(motion_events, delta)
    /\ motion_sent' = Append(motion_sent, delta)
    /\ last' = "event"
    /\ UNCHANGED <<camera, transform, wheel_events, pressed, dt, ran,
                   start, delta_read, total_read, wheel_sent>>

MouseWheel(event) ==
    /\ ran = {}
    /\ sent < MaxEvents
    /\ sent' = sent + 1
    /\ wheel_events' = Append(wheel_events, event)
    /\ wheel_sent' = Append(wheel_sent, event)
    /\ last' = "event"
    /\ UNCHANGED <<camera, transform, motion_events, pressed, dt, ran,
                   start, delta_read, total_read, motion_sent>>

\* A slip of mouse_motion_system: it returns before reading the events when
\* no button is held, so they stay for the next invocation.
mouse_motion_system_returns_early ==
    /\ "mouse_motion_system" \notin ran
    /\ LET idle == pressed = {}
           delta == IF idle THEN <<0, 0>> ELSE SumDelta(motion_events)
           w == MotionPass(World, delta, pressed, dt)
       IN  /\ camera' = [e \in Entities |-> w[e].cam]
           /\ transform' = [e \in Entities |-> w[e].tf]
           /\ delta_read' = delta
           /\ motion_events' = IF idle THEN motion_events ELSE <<>>
    /\ ran' = ran \cup {"mouse_motion_system"}
    /\ last' = "mouse_motion_system"
    /\ UNCHANGED <<wheel_events, pressed, dt, sent, start, total_read,
                   motion_sent, wheel_sent>>

mouse_motion_system ==
    /\ "mouse_motion_system" \notin ran
    /\ LET delta == SumDelta(motion_events)
           w == MotionPass(World, delta, pressed, dt)
       IN  /\ camera' = [e \in Entities |-> w[e].cam]
           /\ transform' = [e \in Entities |-> w[e].tf]
           /\ delta_read' = delta
    /\ motion_events' = <<>>
    /\ ran' = ran \cup {"mouse_motion_system"}
    /\ last' = "mouse_motion_system"
    /\ UNCHANGED <<wheel_events, pressed, dt, sent, start, total_read,
                   motion_sent, wheel_sent>>

zoom_system ==
    /\ "zoom_system" \notin ran
    /\ LET total == SumWheel(wheel_events)
           w == ZoomPass(World, total)
       IN  /\ camera' = [e \in Entities |-> w[e].cam]
           /\ transform' = [e \in Entities |-> w[e].tf]
           /\ total_read' = total
    /\ wheel_events' = <<>>
    /\ ran' = ran \cup {"zoom_system"}
    /\ last' = "zoom_system"
    /\ UNCHANGED <<motion_events, pressed, dt, sent, start, delta_read,
                   motion_sent, wheel_sent>>

Next ==
    \/ \E seconds \in Seconds, held \in SUBSET MouseButtons :
          NextFrame(seconds, held)
    \/ \E delta \in MotionDeltas : MouseMotion(delta)
    \/ \E event \in WheelValues : MouseWheel(event)
    \/ mouse_motion_system
    \/ zoom_system

Spec == Init /\ [][Next]_vars

----------------------------------------------------------------------------
(* Properties.                                                             *)

WorldNext == [e \in Entities |-> Item(camera'[e], transform'[e])]
MotionStep == last' = "mouse_motion_system"
ZoomStep == last' = "zoom_system"

RotateHeld(it) == it.cam.rotate_button \in pressed
PanHeld(it) == it.cam.pan_button \in pressed

\* |v|, for the vectors whose length the representation gives.
Length(v) ==
    IF v = VecZero THEN Dist(0, 0)
    ELSE IF Cardinality(v) = 1 /\ ~IsNaN(v)
         THEN LET t == CHOOSE u \in v : TRUE IN Dist(Abs(t.m), t.k)
         ELSE Dist(-1, 0)

\* The camera is at `distance` from the pivot.
OnSphere(it) == Length(VSub(it.tf.translation, it.cam.center)) = it.cam.distance

\* The pose the rotate branch gives the transform.
AtOrbitPose(it) ==
    /\ it.cam.y \in PITCH_MIN..PITCH_MAX
    /\ it.tf.translation =
           VAdd(VMulLen(Unit(RotY(it.cam.x, it.cam.y)), it.cam.distance),
                it.cam.center)
    /\ it.tf.rotation = Quat(VNeg(Unit(RotX(it.cam.x))),
                             Unit(RotZ(it.cam.x, it.cam.y)),
                             Unit(RotY(it.cam.x, it.cam.y)))

\* a < b for two lengths of one camera with the same mantissa.
DistLess(a, b, zs) ==
    /\ a.m = b.m
    /\ a.m > 0
    /\ \/ zs < ONE /\ a.k > b.k
       \/ zs > ONE /\ a.k < b.k

----------------------------------------------------------------------------
\* C3: after a pass of mouse_motion_system, every enabled entity whose rotate
\* button is held has its pitch y in [0.01, 3.13], whatever the summed delta
\* and whatever the pitch before the pass.
PitchClamped ==
    last = "mouse_motion_system" =>
        \A e \in Entities :
            World[e].cam.enabled /\ RotateHeld(World[e]) =>
                camera[e].y \in PITCH_MIN..PITCH_MAX

\* A rotate-held pass on a camera whose pitch was above 3.13, with a delta
\* larger than the whole interval: the pitch ends at the lower bound.
PitchClampedWitness ==
    /\ ran = {"mouse_motion_system"}
    /\ camera["cam1"].enabled /\ RotateHeld(World["cam1"])
    /\ start["cam1"].cam.y > PITCH_MAX
    /\ delta_read[2] * camera["cam1"].rotate_sensitivity * dt > PITCH_MAX
    /\ camera["cam1"].y = PITCH_MIN

\* C4: an entity whose OrbitCamera has enabled = false is changed by neither
\* system, whatever the events, the elapsed time and the buttons.
DisabledUntouched ==
    [][\A e \in Entities :
          ~camera[e].enabled =>
              camera'[e] = camera[e] /\ transform'[e] = transform[e]]_vars

\* A zoom pass that moved the enabled camera and left the disabled one,
\* which stands off its sphere, where it was.
DisabledUntouchedWitness ==
    /\ last = "zoom_system"
    /\ total_read # 0
    /\ ~camera["cam2"].enabled
    /\ ~OnSphere(World["cam2"])
    /\ World["cam2"] = DisabledItem
    /\ camera["cam1"].enabled
    /\ camera["cam1"].distance # DisabledItem.cam.distance
    /\ "mouse_motion_system" \in ran
    /\ pressed = MouseButtons
    /\ delta_read # <<0, 0>>

\* C5: in a pass of mouse_motion_system with the pan button held and the
\* rotate button not held, an enabled entity has one and the same vector added
\* to center and to the translation, so translation - center is what it was
\* (for a translation that is a point, not NaN); yaw, pitch, distance and
\* the rotation are what they were.
PanKeepsOffset ==
    [][MotionStep =>
          \A e \in Entities :
              LET it == World[e]
                  pan_vector == VSub(camera'[e].center, it.cam.center)
              IN  it.cam.enabled /\ PanHeld(it) /\ ~RotateHeld(it) =>
                      /\ transform'[e].translation =
                             VAdd(it.tf.translation, pan_vector)
                      /\ ~IsNaN(it.tf.translation) =>
                             VSub(transform'[e].translation, camera'[e].center)
                                 = VSub(it.tf.translation, it.cam.center)
                      /\ camera'[e].x = it.cam.x
                      /\ camera'[e].y = it.cam.y
                      /\ camera'[e].distance = it.cam.distance
                      /\ transform'[e].rotation = it.tf.rotation]_vars

\* A pure-pan pass, after an earlier rotation, that moved the pivot and the
\* camera along the camera's own axes.
PanKeepsOffsetWitness ==
    /\ ran = {"mouse_motion_system"}
    /\ pressed = {"Right"}
    /\ delta_read # <<0, 0>>
    /\ camera["cam1"].enabled
    /\ AtOrbitPose(start["cam1"])
    /\ camera["cam1"].center # start["cam1"].cam.center
    /\ transform["cam1"].translation # start["cam1"].tf.translation
    /\ VSub(transform["cam1"].translation, camera["cam1"].center)
           = VSub(start["cam1"].tf.translation, start["cam1"].cam.center)

ZoomMonotone ==
    [][ZoomStep =>
          \A e \in Entities :
              LET cam == camera[e]
                  zs == cam.zoom_sensitivity
              IN  cam.enabled /\ cam.distance.m > 0 /\ zs > 0 /\ zs < ONE =>
                      /\ total_read' > 0 =>
                             DistLess(camera'[e].distance, cam.distance, zs)
                      /\ total_read' < 0 =>
                             DistLess(cam.distance, camera'[e].distance, zs)
                      /\ camera'[e].distance =
                             Dist(cam.distance.m, cam.distance.k + total_read')]_vars

\* One line of scroll on the default camera: 5.0 becomes 5.0 * 0.8^1.
ZoomMonotoneWitness ==
    /\ last = "zoom_system"
    /\ wheel_sent = <<[y |-> 1, unit |-> "Line"]>>
    /\ start["cam1"].cam = OrbitCameraDefault
    /\ camera["cam1"].distance = Dist(500, 10)
    /\ DistLess(camera["cam1"].distance, start["cam1"].cam.distance, 8)

\* C8: the total of zoom_system is the sum of the events' y, each times 1.0
\* for a line-unit and 0.1 for a pixel-unit event; a frame with one pixel
\* event of 10.0 gives the result of a frame with one line event of 1.0, and
\* so do any two frames of equal weighted sum.
WeightedSum(events) ==
    LET ys(unit) == {i \in 1..Len(events) : events[i].unit = unit}
        RECURSIVE Add(_)
        Add(is) == IF is = {} THEN 0
                   ELSE LET i == CHOOSE j \in is : TRUE
                        IN  events[i].y + Add(is \ {i})
    IN  10 * Add(ys("Line")) + Add(ys("Pixel"))

ShortWheelSeqs ==
    {<<>>} \cup {<<a>> : a \in WheelValues}
           \cup {<<a, b>> : a \in WheelValues, b \in WheelValues}

ScrollUnits ==
    /\ "zoom_system" \in ran /\ last # "init" =>
           total_read = WeightedSum(wheel_sent)
    /\ ran = {} =>
           /\ ZoomPass(World, SumWheel(<<[y |-> 10, unit |-> "Pixel"]>>))
                  = ZoomPass(World, SumWheel(<<[y |-> 1, unit |-> "Line"]>>))
           /\ \A other \in ShortWheelSeqs :
                  WeightedSum(wheel_events) = WeightedSum(other) =>
                      ZoomPass(World, SumWheel(wheel_events))
                          = ZoomPass(World, SumWheel(other))

\* A frame whose only scroll event is a pixel event of 10.0, on the default
\* camera: the distance is that of one line, 5.0 * 0.8^1.
ScrollUnitsWitness ==
    /\ last = "zoom_system"
    /\ wheel_sent = <<[y |-> 10, unit |-> "Pixel"]>>
    /\ total_read = 10
    /\ start["cam1"].cam = OrbitCameraDefault
    /\ camera["cam1"].distance = Dist(500, 10)
    /\ transform["cam1"].translation = VMulLen(VecZ, Dist(500, 10))

\* C1, as claimed: a pass of mouse_motion_system in which neither button is
\* held or the summed delta is zero, and a pass of zoom_system whose total is
\* zero, leave every OrbitCamera and Transform unchanged.
ZeroInputNoOp ==
    [][/\ MotionStep =>
             \A e \in Entities :
                 ((~RotateHeld(World[e]) /\ ~PanHeld(World[e]))
                      \/ delta_read' = <<0, 0>>) => WorldNext[e] = World[e]
       /\ ZoomStep /\ total_read' = 0 => WorldNext = World]_vars

\* C1, amended: a zero-input pass leaves an entity unchanged when, for
\* mouse_motion_system, the rotate button is not held (and the pan button is
\* not held or the delta is zero) or the rotate button is held, the delta is
\* zero and the camera already has the pose of its yaw and pitch; and when,
\* for zoom_system with a zero total, the camera is already at `distance`
\* from center.
ZeroInputNoOpWhenPlaced ==
    [][/\ MotionStep =>
             \A e \in Entities :
                 LET it == World[e]
                     placed == \/ ~RotateHeld(it) /\ ~PanHeld(it)
                               \/ ~RotateHeld(it) /\ delta_read' = <<0, 0>>
                               \/ delta_read' = <<0, 0>> /\ AtOrbitPose(it)
                 IN  placed => WorldNext[e] = it
       /\ ZoomStep /\ total_read' = 0 =>
             \A e \in Entities : OnSphere(World[e]) => WorldNext[e] = World[e]]_vars

\* Both systems ran without input on a camera that an earlier rotation had
\* placed, with both buttons held, and left it as it was.
ZeroInputNoOpWitness ==
    /\ ran = Systems
    /\ last \in Systems
    /\ pressed = MouseButtons
    /\ delta_read = <<0, 0>> /\ total_read = 0
    /\ motion_sent # <<>>
    /\ camera["cam1"].enabled
    /\ AtOrbitPose(start["cam1"]) /\ OnSphere(start["cam1"])
    /\ start["cam1"].cam.center # CustomItem.cam.center
    /\ World["cam1"] = start["cam1"]

\* C2: at the end of a frame every entity whose translation was not at its
\* center when the frame began has the OrbitCamera and the Transform it would
\* have had the two systems run in the other order, on the same events,
\* buttons and elapsed time.
OtherOrder ==
    IF last = "zoom_system"
    THEN MotionPass(ZoomPass(start, total_read), delta_read, pressed, dt)
    ELSE ZoomPass(MotionPass(start, delta_read, pressed, dt), total_read)

OrderIndependent ==
    ran = Systems /\ last \in Systems =>
        \A e \in Entities :
            start[e].tf.translation # start[e].cam.center =>
                World[e] = OtherOrder[e]

\* A frame with both buttons held, a pointer delta and a scroll total, in
\* which the rotation ran before the zoom: the camera turned, panned and
\* zoomed, and is where the other order puts it.
OrderIndependentWitness ==
    /\ ran = Systems /\ last = "zoom_system"
    /\ pressed = MouseButtons
    /\ delta_read # <<0, 0>> /\ total_read # 0
    /\ \A e \in Entities :
          /\ camera[e].enabled
          /\ camera[e].x # start[e].cam.x
          /\ camera[e].center # start[e].cam.center
          /\ camera[e].distance # start[e].cam.distance
    /\ start["cam1"].tf.translation # start["cam1"].cam.center
    /\ World["cam1"] = OtherOrder["cam1"]

====
